---- MODULE Spec2Model ----
(***************************************************************************)
(* A model of the Minecraft custom-model diagnoser (src/main.py).          *)
(*                                                                         *)
(* Strings are sequences of one-character strings, so that str.islower,    *)
(* str.lower, str.replace and the pathlib operations (suffix, stem,        *)
(* parent) are computed character by character as Python computes them.    *)
(* The alphabet is ASCII.                                                  *)
(***************************************************************************)
EXTENDS Integers, Sequences, FiniteSets, TLC

VARIABLES
    fs,              \* the pack directory: layout, pack.mcmeta, texture and model files
    pc,              \* position of the run inside diagnose / _diagnose / check_files
    err,             \* the exception that ended the run, if any
    AUTO_FIX,        \* the global of the same name
    is_error_exist,  \* the global of the same name
    todo,            \* files still to be visited by the running glob
    sets,            \* the four accumulators of check_files
    asks,            \* history: the confirmations requested in this run, with the answers
    log,             \* history: the stages this run has entered, in order
    backupDir,       \* what backup() has copied under <root>/backup/<timestamp>
    orig,            \* history: the pack as it was when this run started
    hist,            \* history: how the previous run over this pack ended
    call             \* SpecFn only: the last function applied, its input and result

vars == <<fs, pc, err, AUTO_FIX, is_error_exist, todo, sets, asks, log,
          backupDir, orig, hist, call>>

runVars == <<fs, pc, err, AUTO_FIX, is_error_exist, todo, sets, asks, log,
             backupDir, orig, hist>>

(***************************************************************************)
(* Bounds and program constants                                            *)
(***************************************************************************)
MaxLen == 3
MaxOverrides == 4
MaxTexFiles == 2
MaxModelFiles == 2
MaxRuns == 2
DEFAULT_PACK_FORMAT == 8
LAST_CUSTOM_MODEL_DATA == -1

(***************************************************************************)
(* Characters and strings                                                  *)
(***************************************************************************)
UpperSeq == <<"A","B","C","D","E","F","G","H","I","J","K","L","M",
              "N","O","P","Q","R","S","T","U","V","W","X","Y","Z">>
LowerSeq == <<"a","b","c","d","e","f","g","h","i","j","k","l","m",
              "n","o","p","q","r","s","t","u","v","w","x","y","z">>
UpperChars == {UpperSeq[i] : i \in 1..26}
LowerChars == {LowerSeq[i] : i \in 1..26}

Range(s) == {s[i] : i \in 1..Len(s)}

\* str.islower(): at least one cased character and no uppercase one
IsLower(s) ==
    /\ \E i \in 1..Len(s) : s[i] \in LowerChars
    /\ \A i \in 1..Len(s) : s[i] \notin UpperChars

LowerChar(c) ==
    IF c \in UpperChars
    THEN LowerSeq[CHOOSE i \in 1..26 : UpperSeq[i] = c]
    ELSE c

\* str.lower()
Lower(s) == [i \in 1..Len(s) |-> LowerChar(s[i])]

\* str.replace(' ', '_')
ReplaceSpaces(s) == [i \in 1..Len(s) |-> IF s[i] = " " THEN "_" ELSE s[i]]

\* str.endswith / str.startswith
EndsWith(s, t) ==
    /\ Len(t) <= Len(s)
    /\ SubSeq(s, Len(s) - Len(t) + 1, Len(s)) = t

StartsWith(s, t) ==
    /\ Len(t) <= Len(s)
    /\ SubSeq(s, 1, Len(t)) = t

\* str.rfind(c): the last index of c in s, 0 when there is none (1-based)
RFind(s, c) ==
    IF \E i \in 1..Len(s) : s[i] = c
    THEN CHOOSE i \in 1..Len(s) : s[i] = c /\ \A j \in (i+1)..Len(s) : s[j] # c
    ELSE 0

(***************************************************************************)
(* pathlib: a path relative to a directory is a string with "/" separators *)
(***************************************************************************)
\* PurePath.name: the final component
PathName(p) == SubSeq(p, RFind(p, "/") + 1, Len(p))

\* PurePath.parent.as_posix(): "." for a path of one component
PathParent(p) ==
    IF RFind(p, "/") = 0 THEN <<".">> ELSE SubSeq(p, 1, RFind(p, "/") - 1)

\* Python's condition 0 < i < len(name) - 1 on the 0-based index of the last dot
HasSuffix(n) == RFind(n, ".") > 1 /\ RFind(n, ".") < Len(n)

\* PurePath.suffix
PathSuffix(p) ==
    LET n == PathName(p)
    IN  IF HasSuffix(n) THEN SubSeq(n, RFind(n, "."), Len(n)) ELSE <<>>

\* PurePath.stem
PathStem(p) ==
    LET n == PathName(p)
    IN  IF HasSuffix(n) THEN SubSeq(n, 1, RFind(n, ".") - 1) ELSE n

\* Path(file_path.parent, name): the sibling of p called name
Sibling(p, name) ==
    IF RFind(p, "/") = 0 THEN name ELSE SubSeq(p, 1, RFind(p, "/")) \o name

\* file_path.relative_to(dir).parent.as_posix() + '/' + file_path.stem
Identifier(p) == PathParent(p) \o <<"/">> \o PathStem(p)

s_json == <<".","j","s","o","n">>
s_png == <<".","p","n","g">>
s_item == <<"i","t","e","m">>
s_layer0 == <<"l","a","y","e","r","0">>
s_missing == <<"#","m","i","s","s","i","n","g">>
\* the directories of file_path.relative_to(path), below the pack root
s_texture_dir == <<"a","s","s","e","t","s","/","m","i","n","e","c","r","a","f","t","/",
                   "t","e","x","t","u","r","e","s","/">>
s_item_dir == <<"a","s","s","e","t","s","/","m","i","n","e","c","r","a","f","t","/",
                "m","o","d","e","l","s","/","i","t","e","m","/">>

(***************************************************************************)
(* ask and fix_name.  What ask returns is a parameter of the operators     *)
(* that call it: True under AUTO_FIX, else the operator's yes or no.       *)
(***************************************************************************)
Answers(auto) == IF auto THEN {TRUE} ELSE BOOLEAN

Asked(site, answer) == [site |-> site, ans |-> answer]

\* fix_name(string) with the answer that ask returns, should it be called
fix_name(string, answer) ==
    IF IsLower(string) /\ " " \notin Range(string)
    THEN [fix |-> FALSE, name |-> string, asked |-> FALSE]
    ELSE IF answer
         THEN [fix |-> TRUE, name |-> Lower(ReplaceSpaces(string)), asked |-> TRUE]
         ELSE [fix |-> FALSE, name |-> string, asked |-> TRUE]

(***************************************************************************)
(* Parsed JSON documents.  A file holds either text json.load rejects, or  *)
(* an object; of an object the model keeps the keys the program reads and  *)
(* every string that json.dumps would print.  fmt tells whether the text   *)
(* on disk is the output of dump(json, file, indent=INDENT_LV) ("dump") or *)
(* the author's own layout ("raw").                                        *)
(***************************************************************************)
None == [has |-> FALSE]
Some(v) == [has |-> TRUE, v |-> v]

Malformed == [kind |-> "malformed"]

\* a textures value: an object, as the sequence of its (key, value) members in
\* document order, or a JSON string
TexMap(members) == [isMap |-> TRUE, map |-> members]
TexString(s) == [isMap |-> FALSE, str |-> s]
Member(k, v) == [k |-> k, v |-> v]

\* an overrides value: an array of entries, or a JSON object
OvList(list) == [isList |-> TRUE, list |-> list]
OvObject == [isList |-> FALSE]
\* {"predicate": {"custom_model_data": cmd}, "model": model}
Override(cmd, model) == [cmd |-> Some(cmd), model |-> model]
\* {"predicate": {}, "model": model}
OverrideNoData(model) == [cmd |-> None, model |-> model]

ModelDoc(parent, textures, overrides, elements, fmt) ==
    [kind |-> "json", parent |-> parent, textures |-> textures,
     overrides |-> overrides, elements |-> elements, fmt |-> fmt]

Dumped(json) == [json EXCEPT !.fmt = "dump"]

(***************************************************************************)
(* Exceptions                                                              *)
(***************************************************************************)
NoErr == [kind |-> "none", msg |-> "", num |-> 0, lines |-> <<>>]
NoQuickFix(msg) == [kind |-> "NoQuickFix", msg |-> msg, num |-> 0, lines |-> <<>>]
ResourcePackError(msg) ==
    [kind |-> "ResourcePackError", msg |-> msg, num |-> 0, lines |-> <<>>]
\* any other exception, which diagnose reports with a traceback
OtherError(msg) == [kind |-> "Exception", msg |-> msg, num |-> 0, lines |-> <<>>]

(***************************************************************************)
(* check_json_error, is_vanilla_json                                       *)
(***************************************************************************)
check_json_error(doc) ==
    IF doc.kind = "malformed" THEN NoQuickFix("malformed json") ELSE NoErr

\* t in s, for strings
IsSubstring(t, s) ==
    \E i \in 1..(Len(s) - Len(t) + 1) : SubSeq(s, i, i + Len(t) - 1) = t

MapKeys(members) == {members[i].k : i \in 1..Len(members)}
MapGet(members, key) == members[CHOOSE i \in 1..Len(members) : members[i].k = key].v

ItemStem(file_path) == s_item \o <<"/">> \o PathStem(file_path)

\* the mutant of is_vanilla_json that leaves out the test for the "parent" key
is_vanilla_json_no_parent(file_path, json) ==
    IF ~json.textures.has
    THEN [exc |-> ResourcePackError("no textures key"), vanilla |-> FALSE]
    ELSE IF json.textures.v.isMap
    THEN [exc |-> NoErr,
          vanilla |-> /\ s_layer0 \in MapKeys(json.textures.v.map)
                      /\ MapGet(json.textures.v.map, s_layer0) = ItemStem(file_path)]
    ELSE IF IsSubstring(s_layer0, json.textures.v.str)
    THEN [exc |-> OtherError("TypeError"), vanilla |-> FALSE]
    ELSE [exc |-> NoErr, vanilla |-> FALSE]

is_vanilla_json(file_path, json) ==
    IF ~json.textures.has
    THEN [exc |-> ResourcePackError("no textures key"), vanilla |-> FALSE]
    ELSE IF ~json.parent.has
    THEN [exc |-> NoErr, vanilla |-> FALSE]
    ELSE IF json.textures.v.isMap
    THEN [exc |-> NoErr,
          vanilla |-> /\ s_layer0 \in MapKeys(json.textures.v.map)
                      /\ MapGet(json.textures.v.map, s_layer0) = ItemStem(file_path)]
    \* "layer0" in a str is a substring test, and indexing it by "layer0" a TypeError
    ELSE IF IsSubstring(s_layer0, json.textures.v.str)
    THEN [exc |-> OtherError("TypeError"), vanilla |-> FALSE]
    ELSE [exc |-> NoErr, vanilla |-> FALSE]

(***************************************************************************)
(* check_vanilla_json                                                      *)
(***************************************************************************)
\* [override["predicate"]["custom_model_data"] for override in json["overrides"]]
CustomModelData(list) == [i \in 1..Len(list) |-> list[i].cmd.v]

\* the loop of lines 133-139: the number it raises the duplicate error for, if any
RECURSIVE DuplicateScan(_, _)
DuplicateScan(custom_model_data, last_custom_model_data) ==
    IF custom_model_data = <<>> THEN None
    ELSE IF Head(custom_model_data) = last_custom_model_data
         THEN Some(Head(custom_model_data))
         ELSE DuplicateScan(Tail(custom_model_data), Head(custom_model_data))

\* sorted(..., key=custom_model_data): stable, ascending
InsertStable(s, e) ==
    LET k == Cardinality({i \in 1..Len(s) : s[i].cmd.v <= e.cmd.v})
    IN  SubSeq(s, 1, k) \o <<e>> \o SubSeq(s, k + 1, Len(s))

RECURSIVE SortedOverrides(_)
SortedOverrides(list) ==
    IF list = <<>> THEN <<>>
    ELSE InsertStable(SortedOverrides(SubSeq(list, 1, Len(list) - 1)), list[Len(list)])

\* the confirmations of a sequence of fix_name calls, in call order
RECURSIVE NameAsks(_, _, _)
NameAsks(strings, answers, i) ==
    IF i > Len(strings) THEN <<>>
    ELSE (IF fix_name(strings[i], answers[i]).asked
          THEN <<Asked("fix_name", answers[i])>> ELSE <<>>)
         \o NameAsks(strings, answers, i + 1)

VanillaResult(exc, json, written, askSeq, ret) ==
    [exc |-> exc, json |-> json, written |-> written, asks |-> askSeq, ret |-> ret]

\* ansSort: ask's result for the reordering; ansNames[i]: for the i-th model name.
\* written: the document dumped to file_path, if one was.
check_vanilla_json(json, ansSort, ansNames) ==
    IF ~json.overrides.has
    THEN VanillaResult(NoQuickFix("no overrides key"), json, None, <<>>, <<>>)
    ELSE IF ~json.overrides.v.isList
    THEN VanillaResult(NoQuickFix("overrides is not an array"), json, None, <<>>, <<>>)
    ELSE LET list == json.overrides.v.list IN
    IF list = <<>>
    THEN VanillaResult(OtherError("IndexError"), json, None, <<>>, <<>>)
    ELSE IF \E i \in 1..Len(list) : ~list[i].cmd.has
    THEN VanillaResult(NoQuickFix("custom_model_data"), json, None, <<>>, <<>>)
    ELSE LET dup == DuplicateScan(CustomModelData(list), LAST_CUSTOM_MODEL_DATA) IN
    IF dup.has
    THEN VanillaResult([NoQuickFix("Duplicate custom_model_data") EXCEPT !.num = dup.v],
                       json, None, <<>>, <<>>)
    ELSE
    LET sorted_overrides == SortedOverrides(list)
        unsorted == list # sorted_overrides
        reorder == unsorted /\ ansSort
        list2 == IF reorder THEN sorted_overrides ELSE list
        json2 == [json EXCEPT !.overrides = Some(OvList(list2))]
        names == [i \in 1..Len(list2) |-> list2[i].model]
        list3 == [i \in 1..Len(list2) |->
                     [list2[i] EXCEPT !.model = fix_name(list2[i].model, ansNames[i]).name]]
    IN  VanillaResult(NoErr,
                      [json2 EXCEPT !.overrides = Some(OvList(list3))],
                      IF reorder THEN Some(Dumped(json2)) ELSE None,
                      (IF unsorted THEN <<Asked("reorder", ansSort)>> ELSE <<>>)
                          \o NameAsks(names, ansNames, 1),
                      [i \in 1..Len(list3) |-> list3[i].model])

(***************************************************************************)
(* check_custom_json                                                       *)
(***************************************************************************)
\* dumps writes a string as a quote, the escaped text and a quote, and escapes a
\* quote of the text as a backslash and a quote: '"#missing' is in the output of
\* a string iff the text starts with #missing or contains "#missing
MarkerIn(string) ==
    \/ StartsWith(string, s_missing)
    \/ IsSubstring(<<"\"">> \o s_missing, string)

\* '"#missing' in dumps(json): in some string of the document
HasMissingMarker(json) ==
    \/ json.parent.has /\ MarkerIn(json.parent.v)
    \/ /\ json.textures.has
       /\ IF json.textures.v.isMap
          THEN \E i \in 1..Len(json.textures.v.map) :
                  \/ MarkerIn(json.textures.v.map[i].k)
                  \/ MarkerIn(json.textures.v.map[i].v)
          ELSE MarkerIn(json.textures.v.str)
    \/ /\ json.overrides.has /\ json.overrides.v.isList
       /\ \E i \in 1..Len(json.overrides.v.list) :
              MarkerIn(json.overrides.v.list[i].model)
    \/ /\ json.elements.has
       /\ \E i \in 1..Len(json.elements.v) : MarkerIn(json.elements.v[i])

\* ansNames[i]: ask's result for the i-th texture; ansAll: for the rewrite of the map
check_custom_json(json, ansNames, ansAll) ==
    IF ~json.textures.v.isMap
    THEN VanillaResult(NoQuickFix("textures is not JSON"), json, None, <<>>, <<>>)
    ELSE IF ~json.elements.has
    THEN VanillaResult(NoQuickFix("elements key not found"), json, None, <<>>, <<>>)
    ELSE IF HasMissingMarker(json)
    THEN VanillaResult(NoQuickFix("#missing texture found"), json, None, <<>>, <<>>)
    ELSE
    LET members == json.textures.v.map
        values == [i \in 1..Len(members) |-> members[i].v]
        fixed_textures == [i \in 1..Len(members) |->
                              Member(members[i].k, fix_name(members[i].v, ansNames[i]).name)]
        differs == members # fixed_textures
        rewrite == differs /\ ansAll
        json2 == IF rewrite THEN [json EXCEPT !.textures = Some(TexMap(fixed_textures))]
                 ELSE json
    IN  VanillaResult(NoErr, json2,
                      IF rewrite THEN Some(Dumped(json2)) ELSE None,
                      NameAsks(values, ansNames, 1)
                          \o (IF differs THEN <<Asked("textures", ansAll)>> ELSE <<>>),
                      [i \in 1..Len(json2.textures.v.map) |-> json2.textures.v.map[i].v])

(***************************************************************************)
(* check_non_json, check_non_png: the name the file is renamed to          *)
(***************************************************************************)
\* both functions test stem.endswith(".json")
ExtensionFixed(file_path, ext) ==
    IF EndsWith(PathStem(file_path), s_json)
    THEN Sibling(file_path, PathStem(file_path))
    ELSE Sibling(file_path, PathStem(file_path) \o ext)

(***************************************************************************)
(* pack.mcmeta and check_pack_mcmeta                                       *)
(***************************************************************************)
\* a pack_format value: a JSON integer, or a value of another type (a string)
PfInt(n) == [type |-> "int", n |-> n]
PfString == [type |-> "str", n |-> 0]

\* {"pack": {...}} with the two keys each present or not; {} when pack is None
MetaDoc(pack, fmt) == [kind |-> "json", pack |-> pack, fmt |-> fmt]
Pack(pack_format, description) ==
    [pack_format |-> pack_format, description |-> description]

DEFAULT_JSON ==
    MetaDoc(Some(Pack(Some(PfInt(DEFAULT_PACK_FORMAT)), Some("Fixed by WingedSeal-Bot"))),
            "dump")

MetaResult(exc, written, askSeq) == [exc |-> exc, written |-> written, asks |-> askSeq]

\* aParse, aPack, aFormat, aDesc: what ask returns at lines 63, 68, 73/79 and 83
check_pack_mcmeta(meta, aParse, aPack, aFormat, aDesc) ==
    IF meta.kind = "malformed"
    THEN IF aParse
         THEN MetaResult(NoErr, Some(DEFAULT_JSON), <<Asked("reset_parse", aParse)>>)
         \* line 67 reads json, which load never bound
         ELSE MetaResult(OtherError("UnboundLocalError"), None,
                         <<Asked("reset_parse", aParse)>>)
    ELSE IF ~meta.pack.has
    THEN IF aPack
         THEN MetaResult(NoErr, Some(DEFAULT_JSON), <<Asked("reset_pack", aPack)>>)
         \* line 72 indexes json['pack']
         ELSE MetaResult(OtherError("KeyError"), None, <<Asked("reset_pack", aPack)>>)
    ELSE
    LET pack == meta.pack.v
        askFormat == ~pack.pack_format.has \/ pack.pack_format.v.type # "int"
        pack2 == IF askFormat /\ aFormat
                 THEN [pack EXCEPT !.pack_format = Some(PfInt(DEFAULT_PACK_FORMAT))]
                 ELSE pack
        askDesc == ~pack.description.has
        pack3 == IF askDesc /\ aDesc
                 THEN [pack2 EXCEPT !.description = Some("Fixed by WingedSeal-Bot")]
                 ELSE pack2
    IN  MetaResult(NoErr,
                   Some(Dumped([meta EXCEPT !.pack = Some(pack3)])),
                   (IF askFormat THEN <<Asked("pack_format", aFormat)>> ELSE <<>>)
                       \o (IF askDesc THEN <<Asked("description", aDesc)>> ELSE <<>>))

(***************************************************************************)
(* The pack directory                                                      *)
(*   mcmeta       pack.mcmeta, None when there is no such file             *)
(*   assets       whether assets/minecraft is a directory                  *)
(*   item_dir     whether assets/minecraft/models/item is a directory      *)
(*   texture_dir  whether assets/minecraft/textures is a directory         *)
(*   tex          the files under textures, as paths relative to it        *)
(*   models       the files under models/item: path relative to it |->     *)
(*                document                                                 *)
(***************************************************************************)
PackDir(mcmeta, assets, item_dir, texture_dir, tex, models) ==
    [mcmeta |-> mcmeta, assets |-> assets, item_dir |-> item_dir,
     texture_dir |-> texture_dir, tex |-> tex, models |-> models]

NoFiles == [n \in {} |-> Malformed]

\* os.rename of a file of a map path |-> content; the target is replaced
Rename(files, src, dst) ==
    [n \in (DOMAIN files \ {src}) \cup {dst} |-> IF n = dst THEN files[src] ELSE files[n]]

\* open(path, 'w+') and dump: creates the file when there is none
WriteFile(files, path, doc) ==
    [n \in DOMAIN files \cup {path} |-> IF n = path THEN doc ELSE files[n]]

\* a name below dir, from the name relative to the pack root
StripDir(dir, name) == SubSeq(name, Len(dir) + 1, Len(name))

(***************************************************************************)
(* check_files: the body of each loop, and the report                      *)
(***************************************************************************)
EmptySets == [model_file |-> {}, model_key |-> {}, textures_file |-> {}, textures_key |-> {}]

SeqToSet(s) == {s[i] : i \in 1..Len(s)}

\* lines 203-211 for one file_path of the glob over texture_dir.
\* aExt, aName: what ask returns in check_non_png and in fix_name
TextureStep(tex, file_path, aExt, aName) ==
    IF file_path \notin tex
    THEN [exc |-> NoErr, tex |-> tex, added |-> {}, asks |-> <<>>]
    ELSE
    LET badExt == PathSuffix(file_path) # s_png
        renamedExt == badExt /\ aExt
        tex1 == IF renamedExt
                THEN (tex \ {file_path}) \cup {ExtensionFixed(file_path, s_png)}
                ELSE tex
        fixed == fix_name(s_texture_dir \o file_path, aName)
        askSeq == (IF badExt THEN <<Asked("extension", aExt)>> ELSE <<>>)
                      \o (IF fixed.asked THEN <<Asked("fix_name", aName)>> ELSE <<>>)
    IN  IF fixed.fix /\ file_path \notin tex1
        \* file_path still names the file as it was before check_non_png renamed it
        THEN [exc |-> OtherError("FileNotFoundError"), tex |-> tex1, added |-> {},
              asks |-> askSeq]
        ELSE [exc |-> NoErr,
              tex |-> IF fixed.fix
                      THEN (tex1 \ {file_path}) \cup {StripDir(s_texture_dir, fixed.name)}
                      ELSE tex1,
              added |-> {Identifier(file_path)},
              asks |-> askSeq]

ModelResult(exc, models, s, askSeq) ==
    [exc |-> exc, models |-> models, sets |-> s, asks |-> askSeq]

\* lines 214-231 for one file_path of the glob over item_dir.
\* aExt, aName: what ask returns in check_non_json and in fix_name; aAll: for the
\* reordering or the rewrite of the textures map; aEach[i]: in the i-th fix_name
\* call of the validator
ModelStep(models, s, file_path, aExt, aName, aAll, aEach) ==
    IF file_path \notin DOMAIN models
    THEN ModelResult(NoErr, models, s, <<>>)
    ELSE
    LET badExt == PathSuffix(file_path) # s_json
        askExt == IF badExt THEN <<Asked("extension", aExt)>> ELSE <<>>
    IN
    IF badExt /\ aExt /\ ExtensionFixed(file_path, s_json) # file_path
    \* check_json_error opens file_path, the name the file had before the rename
    \* (a file named .json is renamed to itself and is still there)
    THEN ModelResult(OtherError("FileNotFoundError"),
                     Rename(models, file_path, ExtensionFixed(file_path, s_json)),
                     s, askExt)
    ELSE
    LET json == models[file_path] IN
    IF check_json_error(json).kind # "none"
    THEN ModelResult(check_json_error(json), models, s, askExt)
    ELSE
    LET fixed == fix_name(s_item_dir \o file_path, aName)
        models1 == IF fixed.fix
                   THEN Rename(models, file_path, StripDir(s_item_dir, fixed.name))
                   ELSE models
        ask1 == askExt \o (IF fixed.asked THEN <<Asked("fix_name", aName)>> ELSE <<>>)
        class == is_vanilla_json(file_path, json)
    IN
    IF class.exc.kind # "none"
    THEN ModelResult(class.exc, models1, s, ask1)
    ELSE IF class.vanilla
    THEN LET r == check_vanilla_json(json, aAll, aEach)
         IN  ModelResult(r.exc,
                         IF r.written.has
                         THEN WriteFile(models1, file_path, r.written.v) ELSE models1,
                         [s EXCEPT !.model_key = @ \cup SeqToSet(r.ret)],
                         ask1 \o r.asks)
    ELSE LET r == check_custom_json(json, aEach, aAll)
         IN  ModelResult(r.exc,
                         IF r.written.has
                         THEN WriteFile(models1, file_path, r.written.v) ELSE models1,
                         [s EXCEPT !.model_file = @ \cup {Identifier(s_item \o <<"/">> \o file_path)},
                                   !.textures_key = @ \cup SeqToSet(r.ret)],
                         ask1 \o r.asks)

\* the number of fix_name calls the validator of a model file makes
Entries(models, file_path) ==
    IF file_path \notin DOMAIN models \/ models[file_path].kind # "json" THEN 0
    ELSE LET json == models[file_path]
         IN  IF json.overrides.has /\ json.overrides.v.isList
                /\ json.textures.has /\ json.textures.v.isMap
             THEN IF Len(json.overrides.v.list) > Len(json.textures.v.map)
                  THEN Len(json.overrides.v.list) ELSE Len(json.textures.v.map)
             ELSE IF json.overrides.has /\ json.overrides.v.isList
             THEN Len(json.overrides.v.list)
             ELSE IF json.textures.has /\ json.textures.v.isMap
             THEN Len(json.textures.v.map)
             ELSE 0

Line(label, diff) == [label |-> label, diff |-> diff]

\* the mutant of UnmatchedLines without the last of the four differences
UnmatchedLines_three(s) ==
    (IF s.model_key \ s.model_file # {}
     THEN <<Line("File not found for model keys", s.model_key \ s.model_file)>> ELSE <<>>)
    \o (IF s.model_file \ s.model_key # {}
        THEN <<Line("Unused model files", s.model_file \ s.model_key)>> ELSE <<>>)
    \o (IF s.textures_key \ s.textures_file # {}
        THEN <<Line("File not found for texture keys", s.textures_key \ s.textures_file)>>
        ELSE <<>>)

\* lines 233-245: the lines of the report, one for each difference that is not empty
UnmatchedLines(s) ==
    (IF s.model_key \ s.model_file # {}
     THEN <<Line("File not found for model keys", s.model_key \ s.model_file)>> ELSE <<>>)
    \o (IF s.model_file \ s.model_key # {}
        THEN <<Line("Unused model files", s.model_file \ s.model_key)>> ELSE <<>>)
    \o (IF s.textures_key \ s.textures_file # {}
        THEN <<Line("File not found for texture keys", s.textures_key \ s.textures_file)>>
        ELSE <<>>)
    \o (IF s.textures_file \ s.textures_key # {}
        THEN <<Line("Unused texture files", s.textures_file \ s.textures_key)>> ELSE <<>>)

\* the mutant of CheckDirs that tests the two directories in the other order
CheckDirs_textures_first(dir) ==
    IF ~dir.texture_dir
    THEN ResourcePackError("assets/minecraft/textures not found")
    ELSE IF ~dir.item_dir
    THEN ResourcePackError("assets/minecraft/models/item not found")
    ELSE NoErr

\* lines 188-194
CheckDirs(dir) ==
    IF ~dir.item_dir
    THEN ResourcePackError("assets/minecraft/models/item not found")
    ELSE IF ~dir.texture_dir
    THEN ResourcePackError("assets/minecraft/textures not found")
    ELSE NoErr

\* lines 252-257
CheckRoot(dir) ==
    IF ~dir.mcmeta.has
    THEN ResourcePackError("pack.mcmeta not found")
    ELSE IF ~dir.assets
    THEN ResourcePackError("assets/minecraft not found")
    ELSE NoErr

\* the mutant of is_backup: the default of the parameter of _diagnose
is_backup_default == FALSE

\* diagnose calls _diagnose(path.parent, is_backup=True)
is_backup == TRUE

(***************************************************************************)
(* The packs the runs start from.  Directory names are in normalized form  *)
(* (the program renames files, never directories), and every override      *)
(* entry has a "model" key.                                                *)
(***************************************************************************)
n_sword_json == <<"s","w","o","r","d",".","j","s","o","n">>
n_foo_json == <<"f","o","o",".","j","s","o","n">>
n_Foo_json == <<"F","o","o",".","j","s","o","n">>
n_foo_txt == <<"f","o","o",".","t","x","t">>
n_dot_json == <<".","j","s","o","n">>
t_bar_png == <<"i","t","e","m","/","b","a","r",".","p","n","g">>
t_Bar_png == <<"i","t","e","m","/","B","a","r",".","p","n","g">>
t_a_b_txt == <<"i","t","e","m","/","a"," ","b",".","t","x","t">>
id_sword == <<"i","t","e","m","/","s","w","o","r","d">>
id_foo == <<"i","t","e","m","/","f","o","o">>
id_Foo == <<"i","t","e","m","/","F","o","o">>
id_bar == <<"i","t","e","m","/","b","a","r">>
id_Bar == <<"i","t","e","m","/","B","a","r">>
id_generated == <<"i","t","e","m","/","g","e","n","e","r","a","t","e","d">>

ModelNames == {n_sword_json, n_foo_json, n_Foo_json, n_foo_txt}
TexNames == {t_bar_png, t_Bar_png, t_a_b_txt}

\* a Standard document for sword.json with the given override list
Vanilla(list) ==
    ModelDoc(Some(id_generated), Some(TexMap(<<Member(s_layer0, id_sword)>>)),
             Some(OvList(list)), None, "raw")

\* a Custom document with one texture slot and the given strings in its geometry
Custom(texture, faces) ==
    ModelDoc(None, Some(TexMap(<<Member(<<"0">>, texture)>>)), None, Some(faces), "raw")

\* what sword.json may hold: Standard documents, a document without textures,
\* text that is no JSON
StandardDocs ==
    { Vanilla(<<Override(1, id_foo)>>),
      Vanilla(<<Override(1, id_Foo)>>),
      Vanilla(<<Override(2, id_foo), Override(1, id_foo)>>),
      ModelDoc(Some(id_generated), None, None, None, "raw"),
      Malformed }

\* what the other model files may hold: Custom documents, a Standard document
\* of another file, text that is no JSON
CustomDocs ==
    { Custom(id_bar, <<<<"#","0">>>>),
      Custom(id_Bar, <<<<"#","0">>>>),
      Vanilla(<<Override(1, id_foo)>>),
      Malformed }

ModelDocs == StandardDocs \cup CustomDocs
DocsAt(name) == IF name = n_sword_json THEN StandardDocs ELSE CustomDocs

GoodPack == Pack(Some(PfInt(6)), Some("my pack"))

MetaDocs ==
    { Malformed,
      MetaDoc(None, "raw"),
      MetaDoc(Some(Pack(None, None)), "raw"),
      MetaDoc(Some(Pack(Some(PfString), Some("my pack"))), "raw"),
      MetaDoc(Some(Pack(Some(PfInt(6)), None)), "raw"),
      MetaDoc(Some(GoodPack), "raw"),
      MetaDoc(Some(GoodPack), "dump") }

TexTrees == {s \in SUBSET TexNames : Cardinality(s) <= MaxTexFiles}
ModelTrees ==
    UNION {{f \in [s -> ModelDocs] : \A n \in s : f[n] \in DocsAt(n)} :
              s \in {x \in SUBSET ModelNames : Cardinality(x) <= MaxModelFiles}}

\* a models directory whose one file is named .json (no suffix, stem .json),
\* with a Custom document with or without the #missing marker in its strings
DotJsonDocs ==
    { Custom(id_bar, <<<<"#","0">>>>),
      Custom(id_bar, <<<<"#","m","i","s","s","i","n","g">>>>),
      Custom(id_bar, <<<<"a","\"","#","m","i","s","s","i","n","g">>>>),
      Custom(<<"x","#","m","i","s","s","i","n","g">>, <<<<"#","0">>>>) }
DotJsonTrees == {[n \in {n_dot_json} |-> doc] : doc \in DotJsonDocs}

\* one file in each directory that exists
SmallTex(texture_dir) == IF texture_dir THEN {t_Bar_png} ELSE {}
SmallModels(item_dir) ==
    IF item_dir THEN [n \in {n_Foo_json} |-> Custom(id_Bar, <<<<"#","0">>>>)] ELSE NoFiles

InitPacks ==
    \* a pack with a well-formed pack.mcmeta and any tree
    {PackDir(Some(MetaDoc(Some(GoodPack), "raw")), TRUE, TRUE, TRUE, tex, models) :
        tex \in TexTrees, models \in ModelTrees}
    \cup
    {PackDir(Some(MetaDoc(Some(GoodPack), "raw")), TRUE, TRUE, TRUE, {t_bar_png}, models) :
        models \in DotJsonTrees}
    \cup
    \* any pack.mcmeta, or none, and any of the directories missing, with a small tree
    {PackDir(m, d[1], d[1] /\ d[2], d[1] /\ d[3],
             SmallTex(d[1] /\ d[3]), SmallModels(d[1] /\ d[2])) :
        m \in {None} \cup {Some(x) : x \in MetaDocs},
        d \in BOOLEAN \X BOOLEAN \X BOOLEAN}

NoHist == [n |-> 0, allYes |-> TRUE]
NoCall == [fn |-> "none"]

Init ==
    /\ fs \in InitPacks
    /\ pc = "Start"
    /\ err = NoErr
    /\ AUTO_FIX = FALSE
    /\ is_error_exist = FALSE
    /\ todo = {}
    /\ sets = EmptySets
    /\ asks = <<>>
    /\ log = <<>>
    /\ backupDir = None
    /\ orig = fs
    /\ hist = NoHist
    /\ call = NoCall

(***************************************************************************)
(* diagnose and _diagnose                                                  *)
(***************************************************************************)
\* what diagnose's handlers do with an exception of _diagnose: a NoQuickFix sets
\* is_error_exist and leads to "Press enter to try again...", any other one to
\* "Press enter to exit..."
Caught(exc, asked) ==
    /\ err' = exc
    /\ pc' = IF exc.kind = "NoQuickFix" THEN "Retry" ELSE "Exit"
    /\ is_error_exist' = (is_error_exist \/ asked \/ exc.kind = "NoQuickFix")

\* lines 252-259: the checks of the pack root
PreconditionCheck ==
    /\ pc = "Start"
    /\ log' = Append(log, "PreconditionCheck")
    /\ IF CheckRoot(fs).kind # "none"
       THEN Caught(CheckRoot(fs), FALSE)
       ELSE /\ pc' = IF is_backup THEN "Backup" ELSE "ConfirmAutoFixMode"
            /\ UNCHANGED <<err, is_error_exist>>
    /\ UNCHANGED <<fs, AUTO_FIX, todo, sets, asks, backupDir, orig, hist, call>>

\* a file of the backup that the copy left cut short
CutShort == [kind |-> "cut"]

\* what backup/<timestamp> holds when both copies have completed
WholeCopy(d) == [mcmeta |-> d.mcmeta, tex |-> d.tex, models |-> d.models]

\* the model files a failed copytree leaves: any of them, each whole or cut short
PartialModels(models) ==
    UNION {{f \in [s -> {CutShort} \cup {models[n] : n \in s}] :
               \A n \in s : f[n] \in {CutShort, models[n]}} :
           s \in SUBSET DOMAIN models}

\* what backup/<timestamp> holds when a copy has raised: copytree goes on after
\* a file that fails and raises at its end, and copyfile is not called then;
\* or copytree has completed and copyfile has raised
PartialCopies(d) ==
    {[mcmeta |-> None, tex |-> t, models |-> m] :
        t \in SUBSET d.tex, m \in PartialModels(d.models)}
    \cup {[mcmeta |-> Some(CutShort), tex |-> d.tex, models |-> d.models]}

\* backup(path): copytree, then copyfile. Both complete, or one of them raises
\* (the target cannot be created, the disk is full, a file cannot be read) and
\* what was copied until then stays under backup/<timestamp>
Backup ==
    /\ pc = "Backup"
    /\ log' = Append(log, "Backup")
    /\ \/ /\ backupDir' = Some(WholeCopy(fs))
          /\ pc' = "ConfirmAutoFixMode"
          /\ UNCHANGED <<err, is_error_exist>>
       \/ /\ backupDir' \in {None} \cup {Some(c) : c \in PartialCopies(fs)}
          /\ Caught(OtherError("backup copy failed"), FALSE)
    /\ UNCHANGED <<fs, AUTO_FIX, todo, sets, asks, orig, hist, call>>

\* lines 261-272: the prompt for the auto-fix mode, until the answer is yes or no
ConfirmAutoFixMode ==
    /\ pc = "ConfirmAutoFixMode"
    /\ log' = Append(log, "ConfirmAutoFixMode")
    /\ \E answer \in BOOLEAN : AUTO_FIX' = answer
    /\ pc' = "MetadataCheck"
    /\ UNCHANGED <<fs, err, is_error_exist, todo, sets, asks, backupDir, orig, hist, call>>

\* line 274: check_pack_mcmeta(path)
MetadataCheck ==
    /\ pc = "MetadataCheck"
    /\ log' = Append(log, "MetadataCheck")
    /\ \E r \in {check_pack_mcmeta(fs.mcmeta.v, a[1], a[2], a[3], a[4]) :
                    a \in Answers(AUTO_FIX) \X Answers(AUTO_FIX) \X Answers(AUTO_FIX)
                          \X Answers(AUTO_FIX)} :
              /\ fs' = IF r.written.has THEN [fs EXCEPT !.mcmeta = Some(r.written.v)] ELSE fs
              /\ asks' = asks \o r.asks
              /\ IF r.exc.kind # "none"
                 THEN Caught(r.exc, r.asks # <<>>)
                 ELSE /\ pc' = "TreeWalk"
                      /\ is_error_exist' = (is_error_exist \/ r.asks # <<>>)
                      /\ UNCHANGED err
    /\ UNCHANGED <<AUTO_FIX, todo, sets, backupDir, orig, hist, call>>

\* lines 186-202: check_files up to the glob over texture_dir
TreeWalk ==
    /\ pc = "TreeWalk"
    /\ log' = Append(log, "TreeWalk")
    /\ IF CheckDirs(fs).kind # "none"
       THEN /\ Caught(CheckDirs(fs), FALSE)
            /\ UNCHANGED <<todo, sets>>
       ELSE /\ pc' = "Textures"
            /\ sets' = EmptySets
            /\ todo' = fs.tex
            /\ UNCHANGED <<err, is_error_exist>>
    /\ UNCHANGED <<fs, AUTO_FIX, asks, backupDir, orig, hist, call>>

\* one iteration of the loop of lines 202-211; glob yields the files in any order
TextureFile ==
    /\ pc = "Textures"
    /\ \E file_path \in todo :
       \E r \in {TextureStep(fs.tex, file_path, a[1], a[2]) :
                    a \in Answers(AUTO_FIX) \X Answers(AUTO_FIX)} :
              /\ fs' = [fs EXCEPT !.tex = r.tex]
              /\ asks' = asks \o r.asks
              /\ todo' = todo \ {file_path}
              /\ sets' = [sets EXCEPT !.textures_file = @ \cup r.added]
              /\ IF r.exc.kind # "none"
                 THEN Caught(r.exc, r.asks # <<>>)
                 ELSE /\ is_error_exist' = (is_error_exist \/ r.asks # <<>>)
                      /\ UNCHANGED <<pc, err>>
    /\ UNCHANGED <<AUTO_FIX, log, backupDir, orig, hist, call>>

\* line 213: the glob over item_dir starts when the first loop is over
ModelsGlob ==
    /\ pc = "Textures"
    /\ todo = {}
    /\ pc' = "Models"
    /\ todo' = DOMAIN fs.models
    /\ UNCHANGED <<fs, err, AUTO_FIX, is_error_exist, sets, asks, log, backupDir, orig,
                   hist, call>>

\* one iteration of the loop of lines 213-231
ModelFile ==
    /\ pc = "Models"
    /\ \E file_path \in todo :
       \E r \in {ModelStep(fs.models, sets, file_path, a[1], a[2], a[3], aEach) :
                    a \in Answers(AUTO_FIX) \X Answers(AUTO_FIX) \X Answers(AUTO_FIX),
                    aEach \in [1..Entries(fs.models, file_path) -> Answers(AUTO_FIX)]} :
              /\ fs' = [fs EXCEPT !.models = r.models]
              /\ asks' = asks \o r.asks
              /\ todo' = todo \ {file_path}
              /\ sets' = r.sets
              /\ IF r.exc.kind # "none"
                 THEN Caught(r.exc, r.asks # <<>>)
                 ELSE /\ is_error_exist' = (is_error_exist \/ r.asks # <<>>)
                      /\ UNCHANGED <<pc, err>>
    /\ UNCHANGED <<AUTO_FIX, log, backupDir, orig, hist, call>>

\* lines 233-247: the report of the unmatched names
Reconciliation ==
    /\ pc = "Models"
    /\ todo = {}
    /\ log' = Append(log, "Reconciliation")
    /\ IF UnmatchedLines(sets) # <<>>
       THEN Caught([NoQuickFix("I got some unmatched names...") EXCEPT
                       !.lines = UnmatchedLines(sets)], FALSE)
       ELSE /\ pc' = "Report"
            /\ UNCHANGED <<err, is_error_exist>>
    /\ UNCHANGED <<fs, AUTO_FIX, todo, sets, asks, backupDir, orig, hist, call>>

\* lines 277-280: the closing message
Report ==
    /\ pc = "Report"
    /\ log' = Append(log, "Report")
    /\ pc' = "End"
    /\ UNCHANGED <<fs, err, AUTO_FIX, is_error_exist, todo, sets, asks, backupDir, orig,
                   hist, call>>

\* lines 299-300, 310-312: "Press enter to exit..." is acknowledged
Exit ==
    /\ pc = "Exit"
    /\ pc' = "End"
    /\ UNCHANGED <<fs, err, AUTO_FIX, is_error_exist, todo, sets, asks, log, backupDir,
                   orig, hist, call>>

\* lines 307-308: "Press enter to try again..." is acknowledged and the handler
\* calls diagnose() without its path argument: a TypeError, raised inside the
\* handler, which no clause of the try statement catches
Retry ==
    /\ pc = "Retry"
    /\ pc' = "End"
    /\ err' = [kind |-> "Uncaught", msg |-> "TypeError", num |-> 0, lines |-> <<>>]
    /\ UNCHANGED <<fs, AUTO_FIX, is_error_exist, todo, sets, asks, log, backupDir,
                   orig, hist, call>>

AllYes == \A i \in 1..Len(asks) : asks[i].ans

\* after a run that reached its closing message, the operator starts the program
\* again over the pack as that run left it: a new process
Rerun ==
    /\ pc = "End"
    /\ err.kind = "none"
    /\ hist.n + 1 < MaxRuns
    /\ hist' = [n |-> hist.n + 1, allYes |-> AllYes]
    /\ pc' = "Start"
    /\ err' = NoErr
    /\ AUTO_FIX' = FALSE
    /\ is_error_exist' = FALSE
    /\ todo' = {}
    /\ sets' = EmptySets
    /\ asks' = <<>>
    /\ log' = <<>>
    /\ backupDir' = None
    /\ orig' = fs
    /\ UNCHANGED <<fs, call>>

Next ==
    \/ PreconditionCheck
    \/ Backup
    \/ ConfirmAutoFixMode
    \/ MetadataCheck
    \/ TreeWalk
    \/ TextureFile
    \/ ModelsGlob
    \/ ModelFile
    \/ Reconciliation
    \/ Report
    \/ Exit
    \/ Retry
    \/ Rerun

Spec == Init /\ [][Next]_vars

(***************************************************************************)
(* SpecFn: fix_name, is_vanilla_json and check_vanilla_json applied to     *)
(* inputs drawn from bounded sets; call holds the last application.        *)
(***************************************************************************)
Alphabet == {"a", "B", " ", "1"}
Strings == UNION {[1..k -> Alphabet] : k \in 0..MaxLen}

CmdValues == {-1, 1, 2, 3}
OverrideLists ==
    UNION {[1..k -> {Override(c, id_foo) : c \in CmdValues}] : k \in 0..MaxOverrides}

\* Standard documents: every list of up to MaxOverrides overrides with integer
\* discriminators, a list with an entry without one, an overrides value that is
\* no list, and no overrides key
StandardInputs ==
    {Vanilla(list) : list \in OverrideLists}
    \cup { Vanilla(<<Override(1, id_foo), OverrideNoData(id_foo)>>),
           ModelDoc(Some(id_generated), Some(TexMap(<<Member(s_layer0, id_sword)>>)),
                    Some(OvObject), None, "raw"),
           ModelDoc(Some(id_generated), Some(TexMap(<<Member(s_layer0, id_sword)>>)),
                    None, None, "raw") }

n_sword_png_json == <<"s","w","o","r","d",".","p","n","g",".","j","s","o","n">>
ClassNames == {n_sword_json, n_foo_json, n_sword_png_json}
ClassTextures ==
    { None,
      Some(TexMap(<<>>)),
      Some(TexMap(<<Member(s_layer0, id_sword)>>)),
      Some(TexMap(<<Member(s_layer0, id_foo)>>)),
      Some(TexMap(<<Member(<<"0">>, id_sword)>>)),
      Some(TexMap(<<Member(<<"0">>, id_bar), Member(s_layer0, id_sword)>>)),
      Some(TexString(<<"x">>)),
      Some(TexString(s_layer0)) }
ClassDocs ==
    {ModelDoc(parent, textures, overrides, elements, "raw") :
        parent \in {None, Some(id_generated)},
        textures \in ClassTextures,
        overrides \in {None, Some(OvList(<<Override(1, id_foo)>>))},
        elements \in {None, Some(<<<<"#","0">>>>)}}

InitFn ==
    /\ fs = PackDir(None, FALSE, FALSE, FALSE, {}, NoFiles)
    /\ pc = "NotStarted"
    /\ err = NoErr
    /\ AUTO_FIX = FALSE
    /\ is_error_exist = FALSE
    /\ todo = {}
    /\ sets = EmptySets
    /\ asks = <<>>
    /\ log = <<>>
    /\ backupDir = None
    /\ orig = fs
    /\ hist = NoHist
    /\ call = NoCall

Call_fix_name ==
    /\ call.fn = "none"
    /\ \E string \in Strings, answer \in BOOLEAN :
          call' = [fn |-> "fix_name", arg |-> string, answer |-> answer,
                   res |-> fix_name(string, answer)]
    /\ UNCHANGED runVars

\* fix_name applied to the name that an accepted fix_name returned
Call_fix_name_again ==
    /\ call.fn = "fix_name"
    /\ call.res.asked => call.answer
    /\ \E answer \in BOOLEAN :
          call' = [fn |-> "fix_name_again", arg |-> call.res.name, answer |-> answer,
                   res |-> fix_name(call.res.name, answer)]
    /\ UNCHANGED runVars

Call_is_vanilla_json ==
    /\ call.fn = "none"
    /\ \E file_path \in ClassNames, json \in ClassDocs :
          call' = [fn |-> "is_vanilla_json", arg |-> json, file_path |-> file_path,
                   res |-> is_vanilla_json(file_path, json)]
    /\ UNCHANGED runVars

Call_check_vanilla_json ==
    /\ call.fn = "none"
    /\ \E json \in StandardInputs, answer \in BOOLEAN :
          call' = [fn |-> "check_vanilla_json", arg |-> json, answer |-> answer,
                   res |-> check_vanilla_json(json, answer, [i \in 1..MaxOverrides |-> TRUE])]
    /\ UNCHANGED runVars

NextFn ==
    \/ Call_fix_name
    \/ Call_fix_name_again
    \/ Call_is_vanilla_json
    \/ Call_check_vanilla_json

SpecFn == InitFn /\ [][NextFn]_vars

(***************************************************************************)
(* The claims                                                              *)
(***************************************************************************)
Last(s) == s[Len(s)]
Normalized(s) == \A i \in 1..Len(s) : s[i] \notin UpperChars /\ s[i] # " "
Unmatched == "I got some unmatched names..."

\* the line of the report for a difference, none when the difference is empty
ExpectedLine(label, diff) == IF diff = {} THEN {} ELSE {Line(label, diff)}

ExpectedLines ==
    ExpectedLine("File not found for model keys", sets.model_key \ sets.model_file)
    \cup ExpectedLine("Unused model files", sets.model_file \ sets.model_key)
    \cup ExpectedLine("File not found for texture keys",
                      sets.textures_key \ sets.textures_file)
    \cup ExpectedLine("Unused texture files", sets.textures_file \ sets.textures_key)

\* C1: once both walks of check_files are over, the unmatched-names error is
\* raised iff one of the four differences of the accumulated sets is not empty;
\* it is raised by the step that follows the last file of the second walk and
\* by no other, and its message has exactly one line for each difference that
\* is not empty.
C1_ReportIffUnmatched ==
    /\ err.msg = Unmatched =>
          /\ "Reconciliation" \in SeqToSet(log)
          /\ todo = {}
          /\ Len(err.lines) = Cardinality(ExpectedLines)
    /\ (pc \in {"Retry", "Report"} /\ "Reconciliation" \in SeqToSet(log)) =>
          /\ (err.msg = Unmatched) = (ExpectedLines # {})
          /\ SeqToSet(err.lines) = ExpectedLines
          /\ pc = "Report" => err.kind = "none"

\* C1 witness: a report with two lines of the four
C1_Witness ==
    /\ pc = "Retry"
    /\ err.msg = Unmatched
    /\ Len(err.lines) = 2

\* C2 as stated: a document with a textures map is Standard iff the map has a
\* layer0 entry equal to item/<stem of the file>, whatever its other keys.
C2_StandardIffLayer0 ==
    (call.fn = "is_vanilla_json" /\ call.arg.textures.has /\ call.arg.textures.v.isMap) =>
        (call.res.vanilla =
            (\E i \in 1..Len(call.arg.textures.v.map) :
                /\ call.arg.textures.v.map[i].k = s_layer0
                /\ call.arg.textures.v.map[i].v = s_item \o <<"/">> \o PathStem(call.file_path)))

\* C2 amended: a document with a textures map is Standard iff it has a "parent"
\* key and the map has a layer0 entry equal to item/<stem of the file>; no
\* exception is raised for it.
C2_StandardIffParentAndLayer0 ==
    (call.fn = "is_vanilla_json" /\ call.arg.textures.has /\ call.arg.textures.v.isMap) =>
        /\ call.res.exc.kind = "none"
        /\ call.res.vanilla =
            (/\ call.arg.parent.has
             /\ \E i \in 1..Len(call.arg.textures.v.map) :
                   /\ call.arg.textures.v.map[i].k = s_layer0
                   /\ call.arg.textures.v.map[i].v
                          = s_item \o <<"/">> \o PathStem(call.file_path))

\* C2 witness: a document with a "parent" key classified Standard, with other
\* slots in its textures map and an "elements" key
C2_Witness ==
    /\ call.fn = "is_vanilla_json"
    /\ call.res.vanilla
    /\ Len(call.arg.textures.v.map) = 2
    /\ call.arg.elements.has

AdjacentEqual(list) ==
    {i \in 1..(Len(list) - 1) : list[i].cmd.v = list[i + 1].cmd.v}

AllIntegers(json) ==
    /\ json.overrides.has
    /\ json.overrides.v.isList
    /\ \A i \in 1..Len(json.overrides.v.list) : json.overrides.v.list[i].cmd.has

\* C3: for a list of overrides with integer discriminators, the duplicate error
\* is raised iff two consecutive entries have equal discriminators, and it
\* names the discriminator of the first such pair.
C3_DuplicateIffAdjacent ==
    (call.fn = "check_vanilla_json" /\ AllIntegers(call.arg)) =>
        LET list == call.arg.overrides.v.list IN
        /\ (call.res.exc.msg = "Duplicate custom_model_data") = (AdjacentEqual(list) # {})
        /\ AdjacentEqual(list) # {} =>
              call.res.exc.num
                  = list[CHOOSE i \in AdjacentEqual(list) :
                            \A j \in AdjacentEqual(list) : i <= j].cmd.v

\* C4: fix_name applied to the result of an accepted fix_name returns that
\* name with needsFix false and asks nothing; a string with no uppercase
\* character and no space is returned unchanged with needsFix false.
C4_FixNameIdempotent ==
    /\ call.fn = "fix_name_again" =>
          /\ ~call.res.fix
          /\ ~call.res.asked
          /\ call.res.name = call.arg
    /\ (call.fn = "fix_name" /\ Normalized(call.arg)) =>
          /\ ~call.res.fix
          /\ call.res.name = call.arg

\* C5: a run never fails with an exception outside the two kinds the program
\* reports (the precondition error, the no-quick-fix error) right after the
\* operator has declined a fix.
C5_DeclinedFixContinues ==
    (asks # <<>> /\ ~Last(asks).ans) => err.kind # "Exception"

\* C6: when the operator acknowledges the retry prompt, the check starts again
\* from Start over the same pack.
C6_RetryRestarts ==
    [][pc = "Retry" => (pc' = "Start" /\ fs' = fs)]_vars

\* C7: in a pass over a pack on which a pass with every fix accepted has
\* completed, no confirmation is requested, no error is raised and no file of
\* the pack changes.
C7_SecondPassIdle ==
    (hist.n >= 1 /\ hist.allYes) =>
        /\ asks = <<>>
        /\ err.kind = "none"
        /\ fs = orig

\* C8: while the pack differs from what it was when the run started, the
\* backup holds the whole copy of what it was; a run whose backup failed has
\* ended and has changed nothing.
C8_NoWriteBeforeBackup ==
    /\ fs # orig =>
          /\ backupDir.has
          /\ backupDir.v = WholeCopy(orig)
    /\ err.msg = "backup copy failed" =>
          /\ pc \in {"Exit", "End"}
          /\ fs = orig

\* C8 witness: files of the pack have changed, after the backup
C8_Witness ==
    /\ fs.mcmeta # orig.mcmeta
    /\ fs.tex # orig.tex
    /\ fs.models # orig.models
    /\ backupDir.has

ItemDirMissing == "assets/minecraft/models/item not found"
TextureDirMissing == "assets/minecraft/textures not found"

\* C9 as stated: the error for a missing models/item or textures directory is
\* raised by the precondition check: before the auto-fix prompt, before the
\* metadata check, and with no file of the pack written.
C9_MissingDirAbortsFirst ==
    err.msg \in {ItemDirMissing, TextureDirMissing} =>
        /\ log = <<"PreconditionCheck">>
        /\ fs = orig

StageOrder == <<"PreconditionCheck", "Backup", "ConfirmAutoFixMode", "MetadataCheck",
                "TreeWalk", "Reconciliation", "Report">>

\* C9 amended: the stages of a run are, in order, PreconditionCheck (pack.mcmeta
\* and assets/minecraft), Backup, ConfirmAutoFixMode, MetadataCheck, TreeWalk,
\* Reconciliation, Report.  With models/item or textures missing, a run that
\* reaches the tree walk aborts there with the precondition error naming the
\* missing directory (models/item when both are missing): after the prompt and
\* the metadata check, which has rewritten pack.mcmeta, and with no file under
\* assets touched.
C9_MissingDirAbortsAtTreeWalk ==
    /\ log = SubSeq(StageOrder, 1, Len(log))
    /\ (~fs.item_dir \/ ~fs.texture_dir) =>
          /\ fs.tex = orig.tex /\ fs.models = orig.models
          /\ "TreeWalk" \in SeqToSet(log) =>
                /\ err.kind = "ResourcePackError"
                /\ err.msg = IF ~fs.item_dir THEN ItemDirMissing ELSE TextureDirMissing
                /\ log = SubSeq(StageOrder, 1, 5)
                /\ fs.mcmeta.v.kind = "json" /\ fs.mcmeta.v.fmt = "dump"

\* C9 witness: both directories missing, the error raised, pack.mcmeta rewritten
C9_Witness ==
    /\ ~fs.item_dir /\ ~fs.texture_dir
    /\ err.msg = ItemDirMissing
    /\ fs.mcmeta # orig.mcmeta

\* C10: in a run with every fix accepted, each identifier in textureFiles and
\* modelFiles is normalized and is the extension-stripped relative name of a
\* file on disk, and no file is missed by the walk after its renames.
C10_IdentifiersMatchDisk ==
    AllYes =>
        /\ \A id \in sets.textures_file :
              Normalized(id) /\ \E f \in fs.tex : Identifier(f) = id
        /\ \A id \in sets.model_file :
              /\ Normalized(id)
              /\ \E f \in DOMAIN fs.models : Identifier(s_item \o <<"/">> \o f) = id
        /\ err.msg # "FileNotFoundError"

====
